---- MODULE Spec2Model ----
(***************************************************************************)
(* Highlight resolution and notification dispatch of                       *)
(* SharedMessageBuilder (src/src/messages/SharedMessageBuilder.cpp).       *)
(*                                                                         *)
(* Spec        : one parseHighlights pass, one step per block of the       *)
(*               function (category, loop iteration, early return).        *)
(* SpecTrigger : a sequence of triggerHighlights calls sharing the static  *)
(*               currentPlayerUrl and the static QMediaPlayer.             *)
(* SpecBadges  : parseBadges applied to a `badges` tag value.              *)
(*                                                                         *)
(* Settings that parseHighlights reads once are inputs of the step that    *)
(* reads them; a rule list is read one element per loop iteration, so the  *)
(* element is the input of that iteration (the settings of the appended    *)
(* selfHighlight are inputs of the iteration that evaluates it).  Settings *)
(* that are read more than once (enableSubHighlight, the fallback sound    *)
(* settings) and the attributes of the message are state, fixed for the    *)
(* pass.  The inner loop over the badges of the message runs inside the    *)
(* step of the badge rule it belongs to.                                   *)
(***************************************************************************)
EXTENDS Naturals, Sequences, FiniteSets, TLC

\* ------------------------------------------------------------------ bounds
MaxRules  == 2     \* elements read from each configured rule list
MaxTagLen == 5     \* characters of a `badges` tag value (SpecBadges)
MaxCalls  == 3     \* triggerHighlights calls in one behaviour (SpecTrigger)
MaxPhrases == 2    \* phrases of highlightedMessages (SpecResolve)
MaxSnapshot == 2   \* messages of a snapshot (SpecSearch)
MaxTokens == 2     \* matches of the predicate regex in a search text (SpecSearch)

\* --------------------------------------------------------------- universes
NoUrl        == ""                       \* default-constructed QUrl
DefaultSound == "qrc:/sounds/ping2.wav"
SoundPath    == "/snd/custom.wav"        \* value of pathHighlightSound
SettingUrls  == {"", "u1"}               \* sub/whisper sound URL settings
RuleUrls     == {"", "u2"}               \* sound URL of a configured rule

NoColor      == "none"
RuleColors   == {"c1", "c2"}

\* <<nick of the sender, getUserName() of the current account>>
Senders      == {<<"me", "me">>, <<"bob", "me">>, <<"bob", "">>}
UserPatterns == {"me", "bob"}            \* patterns of highlightedUsers
Words        == {"hi", "zz"}             \* patterns of highlightedMessages
Messages     == {<<"hi">>, <<"hi", "me">>}

PathKinds    == {"missing", "dir", "file"}

\* tag mappings: a function whose domain may or may not hold "badges"
NoTags       == [k \in {} |-> <<>>]
Tags(value)  == [k \in {"badges"} |-> value]
MsgTags ==
    {NoTags,
     Tags(<<"s", "/", "1", ",", "b", "/", "2">>),
     Tags(<<"x", ",", "s", "/", "1", ",", "s", "/", "2">>)}
BadgeNames    == {<<"s">>, <<"b">>}
BadgeVersions == {<<>>, <<"1">>}         \* <<>>: the rule has no version
TagChars      == {"s", "1", ",", "/"}
TagValues     == UNION {[1..n -> TagChars] : n \in 0..MaxTagLen}

\* --------------------------------------------------------------- variables
VARIABLES
    pc,                  \* position inside parseHighlights
    exit,                \* which return statement ended the pass
    flags,               \* message().flags
    highlightColor,      \* message().highlightColor
    highlightAlert_,
    highlightSound_,
    highlightSoundUrl_,
    nick,                \* ircMessage->nick()
    originalMessage_,    \* words of the message text
    isReceivedWhisper,   \* args.isReceivedWhisper
    blacklisted,         \* getCSettings().isBlacklistedUser(nick)
    currentUsername,     \* currentUser->getUserName()
    enableSubHighlight,
    customHighlightSound,
    pathKind,            \* what pathHighlightSound names on disk
    soundWriter,         \* history: the settings that wrote highlightSoundUrl_
    matched,             \* history: kind of the rule the last step applied
    idx,                 \* rules already read from the list being iterated
    tags,                \* the tag mapping of the message
    badges,              \* parseBadges(tags)
    badgeHighlightSet,
    currentPlayerUrl,    \* static QUrl of triggerHighlights
    playerMedia,         \* media loaded in the static QMediaPlayer
    context,             \* runtime context the last triggerHighlights saw
    sink,                \* sink calls made by the last triggerHighlights
    calls,               \* triggerHighlights calls made so far
    config,              \* the settings and rule lists a whole pass reads
    first,               \* history: the accumulator the first pass left
    runs,                \* passes of parseHighlights completed
    variants,            \* accumulators of the loop variants run alongside
    threads,             \* each thread's position inside triggerHighlights
    accessed,            \* history: threads that touched the statics
    channel              \* messages of the channel SearchPopup::filter builds

builderVars == <<flags, highlightColor, highlightAlert_, highlightSound_,
                 highlightSoundUrl_, soundWriter>>

msgVars == <<nick, originalMessage_, isReceivedWhisper, blacklisted,
             currentUsername, enableSubHighlight, customHighlightSound,
             pathKind>>

loopVars == <<matched, idx, tags, badges, badgeHighlightSet>>

triggerVars == <<currentPlayerUrl, playerMedia, context, sink, calls>>

scenarioVars == <<config, first, runs, variants, threads, accessed,
                  channel>>

vars == <<pc, exit, builderVars, msgVars, loopVars, triggerVars,
          scenarioVars>>

\* ------------------------------------------------------------ pure helpers
FromLocalFile(path) == "file://" \o path

\* QFileInfo::exists(path) && QFileInfo(path).isFile()
fileExists(kind) == kind # "missing" /\ kind = "file"

getFallbackHighlightSound_IgnoreFile(custom, kind) ==
    IF custom THEN FromLocalFile(SoundPath) ELSE DefaultSound

getFallbackHighlightSound(custom, kind) ==
    IF custom /\ fileExists(kind) THEN FromLocalFile(SoundPath)
    ELSE DefaultSound

Fallback == getFallbackHighlightSound(customHighlightSound, pathKind)

\* HighlightPhrase::isMatch: the pattern occurs as a word of the subject
Range(s) == {s[i] : i \in 1..Len(s)}
isMatch(pattern, subject) == pattern \in Range(subject)

\* HighlightBadge::isMatch: same name, and same version if the rule has one
isMatchBadge(h, badge) ==
    /\ h.badgeName = badge.name
    /\ (h.badgeVersion = <<>> \/ h.badgeVersion = badge.version)

\* HighlightPhrase::hasCustomSound / HighlightBadge::hasCustomSound
hasCustomSound(h) == h.soundUrl # ""

NoWriter == [soundUrl |-> "none"]
Writer(h) == [soundUrl |-> h.soundUrl]

Settings(k) ==
    [kind : {k}, hasAlert : BOOLEAN, hasSound : BOOLEAN,
     soundUrl : SettingUrls]

HighlightPhrases(k, patterns, urls, colors) ==
    [kind : {k}, pattern : patterns, showInMentions : BOOLEAN,
     hasAlert : BOOLEAN, hasSound : BOOLEAN, soundUrl : urls,
     color : colors]

HighlightBadges(names, versions) ==
    [kind : {"badge"}, badgeName : names, badgeVersion : versions,
     hasAlert : BOOLEAN, hasSound : BOOLEAN, soundUrl : RuleUrls,
     color : RuleColors]

\* the builder fields parseHighlights writes
Builder ==
    [flags |-> flags, highlightColor |-> highlightColor,
     highlightAlert_ |-> highlightAlert_, highlightSound_ |-> highlightSound_,
     highlightSoundUrl_ |-> highlightSoundUrl_, soundWriter |-> soundWriter]

SetBuilder(b) ==
    /\ flags' = b.flags
    /\ highlightColor' = b.highlightColor
    /\ highlightAlert_' = b.highlightAlert_
    /\ highlightSound_' = b.highlightSound_
    /\ highlightSoundUrl_' = b.highlightSoundUrl_
    /\ soundWriter' = b.soundWriter

\* flags.has(Subscription) && getSettings()->enableSubHighlight
subProtected(b, enable) == "Subscription" \in b.flags /\ enable

soundUrlOf_Fallback(h, fallback) == fallback

\* the sound URL a category or rule writes
soundUrlOf(h, fallback) ==
    IF hasCustomSound(h) THEN h.soundUrl ELSE fallback

\* ----------------------------------------------------------- badge parsing
\* QString::split(sep) with KeepEmptyParts
RECURSIVE split(_, _)
split(s, sep) ==
    IF \A i \in 1..Len(s) : s[i] # sep
    THEN <<s>>
    ELSE LET p == CHOOSE i \in 1..Len(s) :
                      s[i] = sep /\ \A j \in 1..(i - 1) : s[j] # sep
         IN  <<SubSeq(s, 1, p - 1)>> \o split(SubSeq(s, p + 1, Len(s)), sep)

isNonEmpty(part) == part # <<>>

\* lines 38-46
parseTagList(tagMap, key) ==
    IF key \notin DOMAIN tagMap
    THEN <<>>
    ELSE SelectSeq(split(tagMap[key], ","), isNonEmpty)

RECURSIVE badgesOf_AtLeastTwo(_)
badgesOf_AtLeastTwo(tokens) ==
    IF tokens = <<>> THEN <<>>
    ELSE LET parts == split(Head(tokens), "/")
         IN  (IF Len(parts) < 2 THEN <<>>
              ELSE <<[name |-> parts[1], version |-> parts[2]]>>)
             \o badgesOf_AtLeastTwo(Tail(tokens))

\* lines 52-61: the loop of parseBadges over the tokens
RECURSIVE badgesOf(_)
badgesOf(tokens) ==
    IF tokens = <<>> THEN <<>>
    ELSE LET parts == split(Head(tokens), "/")
         IN  (IF Len(parts) # 2 THEN <<>>
              ELSE <<[name |-> parts[1], version |-> parts[2]]>>)
             \o badgesOf(Tail(tokens))

\* lines 48-64
parseBadges(tagMap) == badgesOf(parseTagList(tagMap, "badges"))

\* ------------------------------------------------------- category bodies
\* lines 134-161
applySubscription(b, s, enable, fallback) ==
    IF subProtected(b, enable)
    THEN [b EXCEPT
            !.highlightAlert_ = IF s.hasAlert THEN TRUE ELSE @,
            !.highlightSound_ = IF s.hasSound THEN TRUE ELSE @,
            !.highlightSoundUrl_ =
                IF s.hasSound THEN soundUrlOf(s, fallback) ELSE @,
            !.soundWriter = IF s.hasSound THEN Writer(s) ELSE @,
            !.flags = @ \cup {"Highlighted"},
            !.highlightColor = "Subscription"]
    ELSE b

applyWhisper_AssignAlert(b, s, received, enableWhisper, fallback) ==
    IF received /\ enableWhisper
    THEN [b EXCEPT
            !.highlightAlert_ = s.hasAlert,
            !.highlightSound_ = IF s.hasSound THEN TRUE ELSE @,
            !.highlightSoundUrl_ =
                IF s.hasSound THEN soundUrlOf(s, fallback) ELSE @,
            !.soundWriter = IF s.hasSound THEN Writer(s) ELSE @,
            !.highlightColor = "Whisper"]
    ELSE b

\* lines 175-205
applyWhisper(b, s, received, enableWhisper, fallback) ==
    IF received /\ enableWhisper
    THEN [b EXCEPT
            !.highlightAlert_ = IF s.hasAlert THEN TRUE ELSE @,
            !.highlightSound_ = IF s.hasSound THEN TRUE ELSE @,
            !.highlightSoundUrl_ =
                IF s.hasSound THEN soundUrlOf(s, fallback) ELSE @,
            !.soundWriter = IF s.hasSound THEN Writer(s) ELSE @,
            !.highlightColor = "Whisper"]
    ELSE b

applyUserHighlight_Unprotected(b, h, enable, fallback) ==
    [b EXCEPT
        !.flags = (@ \cup {"Highlighted"})
                    \cup (IF h.showInMentions THEN {"ShowInMentions"} ELSE {}),
        !.highlightColor = h.color,
        !.highlightAlert_ = IF h.hasAlert THEN TRUE ELSE @,
        !.highlightSound_ = IF h.hasSound THEN TRUE ELSE @,
        !.highlightSoundUrl_ =
            IF h.hasSound THEN soundUrlOf(h, fallback) ELSE @,
        !.soundWriter = IF h.hasSound THEN Writer(h) ELSE @]

\* lines 219-248: body of the per-user loop for a matching rule
applyUserHighlight(b, h, enable, fallback) ==
    [b EXCEPT
        !.flags = (@ \cup {"Highlighted"})
                    \cup (IF h.showInMentions THEN {"ShowInMentions"} ELSE {}),
        !.highlightColor = IF ~subProtected(b, enable) THEN h.color ELSE @,
        !.highlightAlert_ = IF h.hasAlert THEN TRUE ELSE @,
        !.highlightSound_ = IF h.hasSound THEN TRUE ELSE @,
        !.highlightSoundUrl_ =
            IF h.hasSound THEN soundUrlOf(h, fallback) ELSE @,
        !.soundWriter = IF h.hasSound THEN Writer(h) ELSE @]

applyPhraseHighlight_Overwrite(b, h, enable, fallback) ==
    [b EXCEPT
        !.flags = (@ \cup {"Highlighted"})
                    \cup (IF h.showInMentions THEN {"ShowInMentions"} ELSE {}),
        !.highlightColor = IF ~subProtected(b, enable) THEN h.color ELSE @,
        !.highlightAlert_ = IF h.hasAlert THEN TRUE ELSE @,
        !.highlightSound_ = IF h.hasSound THEN TRUE ELSE @,
        !.highlightSoundUrl_ =
            IF h.hasSound THEN soundUrlOf(h, fallback) ELSE @,
        !.soundWriter = IF h.hasSound THEN Writer(h) ELSE @]

applyPhraseHighlight_KeepColor(b, h, enable, fallback) ==
    [b EXCEPT
        !.flags = (@ \cup {"Highlighted"})
                    \cup (IF h.showInMentions THEN {"ShowInMentions"} ELSE {}),
        !.highlightColor =
            IF ~subProtected(b, enable) /\ b.highlightColor = NoColor
            THEN h.color ELSE @,
        !.highlightAlert_ = IF h.hasAlert THEN TRUE ELSE @,
        !.highlightSound_ = IF h.hasSound /\ ~b.highlightSound_ THEN TRUE ELSE @,
        !.highlightSoundUrl_ =
            IF h.hasSound /\ ~b.highlightSound_
            THEN soundUrlOf(h, fallback) ELSE @,
        !.soundWriter =
            IF h.hasSound /\ ~b.highlightSound_ THEN Writer(h) ELSE @]

\* lines 292-324: body of the phrase loop for a matching phrase
applyPhraseHighlight(b, h, enable, fallback) ==
    [b EXCEPT
        !.flags = (@ \cup {"Highlighted"})
                    \cup (IF h.showInMentions THEN {"ShowInMentions"} ELSE {}),
        !.highlightColor = IF ~subProtected(b, enable) THEN h.color ELSE @,
        !.highlightAlert_ = IF h.hasAlert THEN TRUE ELSE @,
        !.highlightSound_ = IF h.hasSound /\ ~b.highlightSound_ THEN TRUE ELSE @,
        !.highlightSoundUrl_ =
            IF h.hasSound /\ ~b.highlightSound_
            THEN soundUrlOf(h, fallback) ELSE @,
        !.soundWriter =
            IF h.hasSound /\ ~b.highlightSound_ THEN Writer(h) ELSE @]

applyBadgeHighlight_NoLatch(b, h, set, enable, fallback) ==
    [b EXCEPT
        !.flags = @ \cup {"Highlighted"},
        !.highlightColor = IF ~subProtected(b, enable) THEN h.color ELSE @,
        !.highlightAlert_ = IF h.hasAlert THEN TRUE ELSE @,
        !.highlightSound_ = IF h.hasSound /\ ~b.highlightSound_ THEN TRUE ELSE @,
        !.highlightSoundUrl_ =
            IF h.hasSound /\ ~b.highlightSound_
            THEN soundUrlOf(h, fallback) ELSE @,
        !.soundWriter =
            IF h.hasSound /\ ~b.highlightSound_ THEN Writer(h) ELSE @]

\* lines 349-375: body of the inner badge loop for a matching badge
applyBadgeHighlight(b, h, set, enable, fallback) ==
    [b EXCEPT
        !.flags = IF ~set THEN @ \cup {"Highlighted"} ELSE @,
        !.highlightColor =
            IF ~set /\ ~subProtected(b, enable) THEN h.color ELSE @,
        !.highlightAlert_ = IF h.hasAlert THEN TRUE ELSE @,
        !.highlightSound_ = IF h.hasSound /\ ~b.highlightSound_ THEN TRUE ELSE @,
        !.highlightSoundUrl_ =
            IF h.hasSound /\ ~b.highlightSound_
            THEN soundUrlOf(h, fallback) ELSE @,
        !.soundWriter =
            IF h.hasSound /\ ~b.highlightSound_ THEN Writer(h) ELSE @]

RECURSIVE badgeLoop_BreakFirst(_, _, _, _, _, _)
badgeLoop_BreakFirst(st, h, bs, i, enable, fallback) ==
    IF i >= Len(bs) THEN st
    ELSE IF ~isMatchBadge(h, bs[i + 1])
         THEN badgeLoop_BreakFirst(st, h, bs, i + 1, enable, fallback)
         ELSE IF st.b.highlightAlert_ /\ st.b.highlightSound_
              THEN st
              ELSE badgeLoop_BreakFirst(
                       [b |-> applyBadgeHighlight(st.b, h, st.set, enable,
                                                  fallback),
                        set |-> TRUE],
                       h, bs, i + 1, enable, fallback)

\* lines 342-385: the inner loop over the badges of the message, from the
\* badge after position i, for the badge rule h; st = [b, set] holds the
\* builder and badgeHighlightSet
RECURSIVE badgeLoop(_, _, _, _, _, _)
badgeLoop(st, h, bs, i, enable, fallback) ==
    IF i >= Len(bs) THEN st
    ELSE IF ~isMatchBadge(h, bs[i + 1])
         THEN badgeLoop(st, h, bs, i + 1, enable, fallback)
         ELSE LET b == applyBadgeHighlight(st.b, h, st.set, enable, fallback)
                  next == [b |-> b, set |-> TRUE]
              IN  IF b.highlightAlert_ /\ b.highlightSound_
                  THEN next
                  ELSE badgeLoop(next, h, bs, i + 1, enable, fallback)

\* lines 209-259: the loop over highlightedUsers from position i; the result
\* tells whether parseHighlights returned inside the loop
RECURSIVE userLoop(_, _, _, _, _, _)
userLoop(b, users, i, who, enable, fallback) ==
    IF i >= Len(users) THEN [b |-> b, returned |-> FALSE]
    ELSE IF ~isMatch(users[i + 1].pattern, <<who>>)
         THEN userLoop(b, users, i + 1, who, enable, fallback)
         ELSE LET next == applyUserHighlight(b, users[i + 1], enable,
                                             fallback)
              IN  IF next.highlightAlert_ /\ next.highlightSound_
                  THEN [b |-> next, returned |-> TRUE]
                  ELSE userLoop(next, users, i + 1, who, enable, fallback)

\* lines 267-282: the configured phrases, then the self-mention phrase
activeHighlights(phrases, isAnon, enableSelf, selfHighlight, username) ==
    phrases \o (IF ~isAnon /\ enableSelf /\ Len(username) > 0
                THEN <<selfHighlight>> ELSE <<>>)

RECURSIVE phraseLoop_BreakOnSound(_, _, _, _, _, _)
phraseLoop_BreakOnSound(b, active, i, message, enable, fallback) ==
    IF i >= Len(active) THEN [b |-> b, idx |-> i]
    ELSE IF ~isMatch(active[i + 1].pattern, message)
         THEN phraseLoop_BreakOnSound(b, active, i + 1, message, enable,
                                      fallback)
         ELSE LET next == applyPhraseHighlight(b, active[i + 1], enable,
                                               fallback)
              IN  IF next.highlightSound_
                  THEN [b |-> next, idx |-> i + 1]
                  ELSE phraseLoop_BreakOnSound(next, active, i + 1, message,
                                               enable, fallback)

\* lines 285-334: the loop over activeHighlights from position i; idx counts
\* the phrases the loop read before it ended
RECURSIVE phraseLoop(_, _, _, _, _, _)
phraseLoop(b, active, i, message, enable, fallback) ==
    IF i >= Len(active) THEN [b |-> b, idx |-> i]
    ELSE IF ~isMatch(active[i + 1].pattern, message)
         THEN phraseLoop(b, active, i + 1, message, enable, fallback)
         ELSE LET next == applyPhraseHighlight(b, active[i + 1], enable,
                                               fallback)
              IN  IF next.highlightAlert_ /\ next.highlightSound_
                  THEN [b |-> next, idx |-> i + 1]
                  ELSE phraseLoop(next, active, i + 1, message, enable,
                                  fallback)

\* lines 342-385 without the break at 377-383: every matching badge is applied
RECURSIVE badgeLoopNoBreak(_, _, _, _, _, _)
badgeLoopNoBreak(st, h, bs, i, enable, fallback) ==
    IF i >= Len(bs) THEN st
    ELSE IF ~isMatchBadge(h, bs[i + 1])
         THEN badgeLoopNoBreak(st, h, bs, i + 1, enable, fallback)
         ELSE badgeLoopNoBreak(
                  [b |-> applyBadgeHighlight(st.b, h, st.set, enable,
                                             fallback),
                   set |-> TRUE],
                  h, bs, i + 1, enable, fallback)

\* lines 342-385 with the break at 377-383 leaving the outer loop as well:
\* st.stopped tells the loop over the rules to end
RECURSIVE badgeLoopStopBoth(_, _, _, _, _, _)
badgeLoopStopBoth(st, h, bs, i, enable, fallback) ==
    IF st.stopped \/ i >= Len(bs) THEN st
    ELSE IF ~isMatchBadge(h, bs[i + 1])
         THEN badgeLoopStopBoth(st, h, bs, i + 1, enable, fallback)
         ELSE LET b == applyBadgeHighlight(st.b, h, st.set, enable, fallback)
              IN  badgeLoopStopBoth(
                      [b |-> b, set |-> TRUE,
                       stopped |-> b.highlightAlert_ /\ b.highlightSound_],
                      h, bs, i + 1, enable, fallback)

\* lines 340-386: the outer loop over highlightedBadges from position i
RECURSIVE badgeRules(_, _, _, _, _, _)
badgeRules(st, rules, i, bs, enable, fallback) ==
    IF i >= Len(rules) THEN st
    ELSE badgeRules(badgeLoop(st, rules[i + 1], bs, 0, enable, fallback),
                    rules, i + 1, bs, enable, fallback)

\* ------------------------------------------------------------- dispatcher
Contexts ==
    [kind : {"call"}, isInStreamerMode : BOOLEAN,
     streamerModeMuteMentions : BOOLEAN, isMutedChannel : BOOLEAN,
     hasFocus : BOOLEAN, highlightAlwaysPlaySound : BOOLEAN,
     isGuiThread : BOOLEAN]

\* the sound fields parseHighlights can leave in a builder
ResolvedSounds ==
    {[highlightSound_ |-> FALSE, highlightSoundUrl_ |-> NoUrl]}
    \cup [highlightSound_ : {TRUE},
          highlightSoundUrl_ : {DefaultSound, FromLocalFile(SoundPath),
                                "u1", "u2"}]

SetMedia(url) == [op |-> "setMedia", url |-> url]
Play          == [op |-> "play", url |-> NoUrl]
SendAlert     == [op |-> "sendAlert", url |-> NoUrl]

getPlayer_AnyThread(c) == "player"

\* lines 434-445
getPlayer(c) == IF c.isGuiThread THEN "player" ELSE "nullptr"

playSound_StaleCache(d, sound, url, c) ==
    IF sound /\ (~c.hasFocus \/ c.highlightAlwaysPlaySound)
             /\ getPlayer(c) # "nullptr"
    THEN IF d.currentPlayerUrl # url
         THEN [currentPlayerUrl |-> d.currentPlayerUrl, playerMedia |-> url,
               sink |-> d.sink \o <<SetMedia(url), Play>>]
         ELSE [d EXCEPT !.sink = @ \o <<Play>>]
    ELSE d

\* lines 466-480: d = [currentPlayerUrl, playerMedia, sink]
playSound(d, sound, url, c) ==
    IF sound /\ (~c.hasFocus \/ c.highlightAlwaysPlaySound)
             /\ getPlayer(c) # "nullptr"
    THEN IF d.currentPlayerUrl # url
         THEN [currentPlayerUrl |-> url, playerMedia |-> url,
               sink |-> d.sink \o <<SetMedia(url), Play>>]
         ELSE [d EXCEPT !.sink = @ \o <<Play>>]
    ELSE d

triggerHighlights_IgnoreMute(d, sound, url, alert, c) ==
    IF c.isInStreamerMode /\ c.streamerModeMuteMentions
    THEN d
    ELSE LET p == playSound(d, sound, url, c)
         IN  IF alert THEN [p EXCEPT !.sink = @ \o <<SendAlert>>] ELSE p

triggerHighlights_AlertNeedsFocus(d, sound, url, alert, c) ==
    IF c.isInStreamerMode /\ c.streamerModeMuteMentions
    THEN d
    ELSE IF c.isMutedChannel
    THEN d
    ELSE LET p == playSound(d, sound, url, c)
         IN  IF alert /\ (~c.hasFocus \/ c.highlightAlwaysPlaySound)
             THEN [p EXCEPT !.sink = @ \o <<SendAlert>>] ELSE p

\* lines 447-486
triggerHighlights(d, sound, url, alert, c) ==
    IF c.isInStreamerMode /\ c.streamerModeMuteMentions
    THEN d
    ELSE IF c.isMutedChannel
    THEN d
    ELSE LET p == playSound(d, sound, url, c)
         IN  IF alert THEN [p EXCEPT !.sink = @ \o <<SendAlert>>] ELSE p

\* outside the specifications that use them the scenario variables are idle
NoConfig == [kind |-> "none"]

InitScenario ==
    /\ config = NoConfig
    /\ first = NoConfig
    /\ runs = 0
    /\ variants = <<>>
    /\ threads = <<>>
    /\ accessed = {}
    /\ channel = <<>>

\* ------------------------------------------------------------------- Init
\* a freshly constructed builder: nothing highlighted, no sound, no alert
InitBuilder ==
    /\ highlightColor = NoColor
    /\ highlightAlert_ = FALSE
    /\ highlightSound_ = FALSE
    /\ highlightSoundUrl_ = NoUrl
    /\ soundWriter = NoWriter

InitLoops ==
    /\ matched = "none"
    /\ idx = 0
    /\ tags = NoTags
    /\ badges = <<>>
    /\ badgeHighlightSet = FALSE

NoContext == [kind |-> "none"]

InitTrigger ==
    /\ currentPlayerUrl = NoUrl
    /\ playerMedia = NoUrl
    /\ context = NoContext
    /\ sink = <<>>
    /\ calls = 0

Init ==
    /\ pc = "subscription"
    /\ exit = "none"
    /\ flags \in {{}, {"Subscription"}}
    /\ InitBuilder
    /\ \E sender \in Senders :
          nick = sender[1] /\ currentUsername = sender[2]
    /\ originalMessage_ \in Messages
    /\ isReceivedWhisper \in BOOLEAN
    /\ blacklisted \in BOOLEAN
    /\ enableSubHighlight \in BOOLEAN
    /\ customHighlightSound \in BOOLEAN
    /\ pathKind \in PathKinds
    /\ InitLoops
    /\ InitTrigger
    /\ InitScenario

\* ---------------------------------------------------------------- actions
\* lines 133-161
SubscriptionCategory ==
    /\ pc = "subscription"
    /\ \E s \in Settings("subscription") :
          SetBuilder(applySubscription(Builder, s, enableSubHighlight,
                                       Fallback))
    /\ matched' = IF subProtected(Builder, enableSubHighlight)
                  THEN "subscription" ELSE "none"
    /\ pc' = "blacklist"
    /\ UNCHANGED <<exit, msgVars, idx, tags, badges, badgeHighlightSet,
                   triggerVars, scenarioVars>>

BlacklistCheck_NoReturn ==
    /\ pc = "blacklist"
    /\ pc' = "whisper"
    /\ UNCHANGED <<exit, builderVars, msgVars, loopVars, triggerVars, scenarioVars>>

\* lines 168-172
BlacklistCheck ==
    /\ pc = "blacklist"
    /\ IF blacklisted
       THEN pc' = "done" /\ exit' = "blacklist"
       ELSE pc' = "whisper" /\ exit' = exit
    /\ UNCHANGED <<builderVars, msgVars, loopVars, triggerVars, scenarioVars>>

\* lines 174-205
WhisperCategory ==
    /\ pc = "whisper"
    /\ \E s \in Settings("whisper"), enableWhisperHighlight \in BOOLEAN :
          /\ SetBuilder(applyWhisper(Builder, s, isReceivedWhisper,
                                     enableWhisperHighlight, Fallback))
          /\ matched' = IF isReceivedWhisper /\ enableWhisperHighlight
                        THEN "whisper" ELSE "none"
    /\ pc' = "user"
    /\ idx' = 0
    /\ UNCHANGED <<exit, msgVars, tags, badges, badgeHighlightSet,
                   triggerVars, scenarioVars>>

UserHighlight_NoReturn ==
    /\ pc = "user"
    /\ idx < MaxRules
    /\ idx' = idx + 1
    /\ \E pattern \in UserPatterns :
          IF ~isMatch(pattern, <<nick>>)
          THEN /\ matched' = "none"
               /\ UNCHANGED builderVars
          ELSE \E h \in HighlightPhrases("user", {pattern}, RuleUrls,
                                         RuleColors) :
               /\ matched' = "user"
               /\ SetBuilder(applyUserHighlight(Builder, h,
                                                enableSubHighlight, Fallback))
    /\ UNCHANGED <<pc, exit, msgVars, tags, badges, badgeHighlightSet,
                   triggerVars, scenarioVars>>

\* lines 209-259: one iteration of the loop over highlightedUsers
UserHighlight ==
    /\ pc = "user"
    /\ idx < MaxRules
    /\ idx' = idx + 1
    /\ \E pattern \in UserPatterns :
          IF ~isMatch(pattern, <<nick>>)
          THEN /\ matched' = "none"
               /\ pc' = pc
               /\ exit' = exit
               /\ UNCHANGED builderVars
          ELSE \E h \in HighlightPhrases("user", {pattern}, RuleUrls,
                                         RuleColors) :
               LET b == applyUserHighlight(Builder, h, enableSubHighlight,
                                           Fallback)
               IN  /\ matched' = "user"
                   /\ SetBuilder(b)
                   /\ IF b.highlightAlert_ /\ b.highlightSound_
                      THEN pc' = "done" /\ exit' = "user"
                      ELSE pc' = pc /\ exit' = exit
    /\ UNCHANGED <<msgVars, tags, badges, badgeHighlightSet, triggerVars, scenarioVars>>

\* line 209: the loop over highlightedUsers has no element left
UserHighlightsEnd ==
    /\ pc = "user"
    /\ pc' = "self"
    /\ matched' = "none"
    /\ UNCHANGED <<exit, builderVars, msgVars, idx, tags, badges,
                   badgeHighlightSet, triggerVars, scenarioVars>>

SelfCheck_NoReturn ==
    /\ pc = "self"
    /\ pc' = "phrase"
    /\ idx' = 0
    /\ UNCHANGED <<exit, builderVars, msgVars, matched, tags, badges,
                   badgeHighlightSet, triggerVars, scenarioVars>>

\* lines 261-270
SelfCheck ==
    /\ pc = "self"
    /\ IF nick = currentUsername
       THEN pc' = "done" /\ exit' = "self"
       ELSE pc' = "phrase" /\ exit' = exit
    /\ idx' = 0
    /\ UNCHANGED <<builderVars, msgVars, matched, tags, badges,
                   badgeHighlightSet, triggerVars, scenarioVars>>

\* lines 285-334: the loop body for a phrase with the given pattern; the loop
\* ends after it when the phrase is the last element or when alert and sound
\* are both satisfied (break)
PhraseBody(kind, pattern, urls, colors, last) ==
    IF ~isMatch(pattern, originalMessage_)
    THEN /\ matched' = "none"
         /\ pc' = IF last THEN "badges" ELSE pc
         /\ UNCHANGED builderVars
    ELSE \E h \in HighlightPhrases(kind, {pattern}, urls, colors) :
         LET b == applyPhraseHighlight(Builder, h, enableSubHighlight,
                                       Fallback)
         IN  /\ matched' = kind
             /\ SetBuilder(b)
             /\ pc' = IF last \/ (b.highlightAlert_ /\ b.highlightSound_)
                      THEN "badges" ELSE pc

PhraseHighlight_NoAdvance ==
    /\ pc = "phrase"
    /\ idx < MaxRules
    /\ \E pattern \in Words :
          PhraseBody("phrase", pattern, RuleUrls, RuleColors, FALSE)
    /\ UNCHANGED <<exit, msgVars, idx, tags, badges, badgeHighlightSet,
                   triggerVars, scenarioVars>>

\* one iteration over a phrase of highlightedMessages
PhraseHighlight ==
    /\ pc = "phrase"
    /\ idx < MaxRules
    /\ idx' = idx + 1
    /\ \E pattern \in Words :
          PhraseBody("phrase", pattern, RuleUrls, RuleColors, FALSE)
    /\ UNCHANGED <<exit, msgVars, tags, badges, badgeHighlightSet,
                   triggerVars, scenarioVars>>

\* lines 272-282 and the last iteration: highlightedMessages has no element
\* left; the selfHighlight, if one was appended, is the last element
SelfHighlight ==
    /\ pc = "phrase"
    /\ \E isAnon \in BOOLEAN, enableSelfHighlight \in BOOLEAN :
          IF ~isAnon /\ enableSelfHighlight /\ Len(currentUsername) > 0
          THEN PhraseBody("self", currentUsername, SettingUrls,
                          {"SelfHighlight"}, TRUE)
          ELSE /\ matched' = "none"
               /\ pc' = "badges"
               /\ UNCHANGED builderVars
    /\ UNCHANGED <<exit, msgVars, idx, tags, badges, badgeHighlightSet,
                   triggerVars, scenarioVars>>

\* lines 337-339
BadgeCategory ==
    /\ pc = "badges"
    /\ \E t \in MsgTags :
          /\ tags' = t
          /\ badges' = parseBadges(t)
    /\ badgeHighlightSet' = FALSE
    /\ idx' = 0
    /\ matched' = "none"
    /\ pc' = "badgeRule"
    /\ UNCHANGED <<exit, builderVars, msgVars, triggerVars, scenarioVars>>

\* lines 340-386: one iteration of the outer loop over highlightedBadges
BadgeHighlight ==
    /\ pc = "badgeRule"
    /\ idx < MaxRules
    /\ idx' = idx + 1
    /\ \E name \in BadgeNames, version \in BadgeVersions :
          IF \A i \in 1..Len(badges) :
                ~isMatchBadge([badgeName |-> name, badgeVersion |-> version],
                              badges[i])
          THEN /\ matched' = "none"
               /\ UNCHANGED <<builderVars, badgeHighlightSet>>
          ELSE \E h \in HighlightBadges({name}, {version}) :
               LET st == badgeLoop([b |-> Builder, set |-> badgeHighlightSet],
                                   h, badges, 0, enableSubHighlight, Fallback)
               IN  /\ SetBuilder(st.b)
                   /\ badgeHighlightSet' = st.set
                   /\ matched' = "badge"
    /\ UNCHANGED <<pc, exit, msgVars, tags, badges, triggerVars, scenarioVars>>

\* line 340: highlightedBadges has no element left, the function ends
BadgeHighlightsEnd ==
    /\ pc = "badgeRule"
    /\ pc' = "done"
    /\ exit' = "end"
    /\ matched' = "none"
    /\ UNCHANGED <<builderVars, msgVars, idx, tags, badges,
                   badgeHighlightSet, triggerVars, scenarioVars>>

Next ==
    \/ SubscriptionCategory
    \/ BlacklistCheck
    \/ WhisperCategory
    \/ UserHighlight
    \/ UserHighlightsEnd
    \/ SelfCheck
    \/ PhraseHighlight
    \/ SelfHighlight
    \/ BadgeCategory
    \/ BadgeHighlight
    \/ BadgeHighlightsEnd

Spec == Init /\ [][Next]_vars

\* parseHighlights runs on one thread that keeps executing: a pass that can
\* take a step takes one
SpecRun == Init /\ [][Next]_vars /\ WF_vars(Next)

\* ------------------------------------------------- SpecTrigger: dispatcher
\* before the first call: the statics hold nothing, no builder was dispatched
InitTriggerSpec ==
    /\ pc = "resolved"
    /\ exit = "end"
    /\ flags = {}
    /\ InitBuilder
    /\ nick = "bob"
    /\ currentUsername = "me"
    /\ originalMessage_ = <<"hi">>
    /\ isReceivedWhisper = FALSE
    /\ blacklisted = FALSE
    /\ enableSubHighlight = FALSE
    /\ customHighlightSound = FALSE
    /\ pathKind = "missing"
    /\ InitLoops
    /\ InitTrigger
    /\ InitScenario

\* lines 447-486: triggerHighlights called on the builder of the next message,
\* whose sound and alert fields parseHighlights has resolved
TriggerHighlights ==
    /\ pc = "resolved"
    /\ calls < MaxCalls
    /\ calls' = calls + 1
    /\ \E r \in ResolvedSounds, alert \in BOOLEAN, c \in Contexts :
          LET d == triggerHighlights(
                       [currentPlayerUrl |-> currentPlayerUrl,
                        playerMedia |-> playerMedia, sink |-> <<>>],
                       r.highlightSound_, r.highlightSoundUrl_, alert, c)
          IN  /\ highlightSound_' = r.highlightSound_
              /\ highlightSoundUrl_' = r.highlightSoundUrl_
              /\ highlightAlert_' = alert
              /\ context' = c
              /\ currentPlayerUrl' = d.currentPlayerUrl
              /\ playerMedia' = d.playerMedia
              /\ sink' = d.sink
    /\ UNCHANGED <<pc, exit, flags, highlightColor, soundWriter, msgVars,
                   loopVars, scenarioVars>>

NextTrigger == TriggerHighlights

SpecTrigger == InitTriggerSpec /\ [][NextTrigger]_vars

\* ---------------------------------------------- SpecBadges: badge parsing
InitBadges ==
    /\ pc = "parseBadges"
    /\ exit = "none"
    /\ flags = {}
    /\ InitBuilder
    /\ nick = "bob"
    /\ currentUsername = "me"
    /\ originalMessage_ = <<"hi">>
    /\ isReceivedWhisper = FALSE
    /\ blacklisted = FALSE
    /\ enableSubHighlight = FALSE
    /\ customHighlightSound = FALSE
    /\ pathKind = "missing"
    /\ matched = "none"
    /\ idx = 0
    /\ tags \in {NoTags} \cup {Tags(v) : v \in TagValues}
    /\ badges = <<>>
    /\ badgeHighlightSet = FALSE
    /\ InitTrigger
    /\ InitScenario

\* lines 48-64
ParseBadges ==
    /\ pc = "parseBadges"
    /\ badges' = parseBadges(tags)
    /\ pc' = "parsed"
    /\ UNCHANGED <<exit, builderVars, msgVars, matched, idx, tags,
                   badgeHighlightSet, triggerVars, scenarioVars>>

NextBadges == ParseBadges

SpecBadges == InitBadges /\ [][NextBadges]_vars

\* ------------------------------------------- SpecResolve: whole passes
\* A pass of parseHighlights over a configuration that is held in config, one
\* step per stretch of the function, and a second pass over the same
\* configuration that starts from the builder the first pass left.

\* category settings that are silent or have a sound with a URL of its own
PassSettings(k) ==
    {s \in Settings(k) : ~s.hasAlert /\ (s.hasSound <=> s.soundUrl # "")}

QuietSettings(k) == {s \in PassSettings(k) : ~s.hasSound}

PassUsers ==
    {h \in HighlightPhrases("user", {"bob"}, RuleUrls, {"c1"}) :
        h.showInMentions /\ (h.hasSound <=> h.soundUrl # "")}

\* a phrase that matches with any alert and sound, or one that does not match
PhraseKinds ==
    {h \in HighlightPhrases("phrase", Words, {""}, {NoColor}) :
        /\ ~h.showInMentions
        /\ h.pattern = "zz" => h.hasAlert /\ h.hasSound}

\* the i-th phrase of a list has a color and a sound URL of its own
NumberedPhrases(f) ==
    [i \in DOMAIN f |->
        [f[i] EXCEPT !.color = "p" \o ToString(i),
                     !.soundUrl = IF f[i].hasSound
                                  THEN "q" \o ToString(i) ELSE ""]]

PassPhrases ==
    {NumberedPhrases(f) :
        f \in UNION {[1..n -> PhraseKinds] : n \in 0..MaxPhrases}}

PassSelf ==
    {h \in HighlightPhrases("self", {"me"}, SettingUrls, {"SelfHighlight"}) :
        /\ h.showInMentions
        /\ h.hasSound <=> h.soundUrl # ""
        /\ h.hasAlert # h.hasSound}

PassBadges ==
    {h \in HighlightBadges({<<"s">>}, {<<>>}) :
        /\ h.color = "c2"
        /\ h.hasAlert <=> h.hasSound
        /\ h.hasSound <=> h.soundUrl # ""}

\* the builder fields without the history
Accumulator(b) ==
    [flags |-> b.flags, highlightColor |-> b.highlightColor,
     highlightAlert_ |-> b.highlightAlert_,
     highlightSound_ |-> b.highlightSound_,
     highlightSoundUrl_ |-> b.highlightSoundUrl_]

InitResolve ==
    /\ pc = "start"
    /\ exit = "none"
    /\ flags \in {{}, {"Subscription"}}
    /\ InitBuilder
    /\ nick = "bob"
    /\ currentUsername = "me"
    /\ originalMessage_ \in Messages
    /\ isReceivedWhisper \in BOOLEAN
    /\ blacklisted = FALSE
    /\ enableSubHighlight = ("Subscription" \in flags)
    /\ customHighlightSound = FALSE
    /\ pathKind = "missing"
    /\ matched = "none"
    /\ idx = 0
    /\ tags = Tags(<<"s", "/", "1", ",", "b", "/", "2">>)
    /\ badges = <<>>
    /\ badgeHighlightSet = FALSE
    /\ InitTrigger
    /\ \E sub \in (IF "Subscription" \in flags
                   THEN PassSettings("subscription")
                   ELSE QuietSettings("subscription")),
          whisper \in (IF isReceivedWhisper THEN PassSettings("whisper")
                       ELSE QuietSettings("whisper")),
          users \in {<<>>} \cup {<<h>> : h \in PassUsers},
          phrases \in PassPhrases,
          enableSelf \in (IF "me" \in Range(originalMessage_)
                          THEN BOOLEAN ELSE {FALSE}),
          rules \in {<<>>} \cup {<<h>> : h \in PassBadges} :
          \E self \in (IF enableSelf THEN PassSelf
                       ELSE {CHOOSE h \in PassSelf : h.hasAlert}) :
             config = [kind |-> "pass",
                       subscription |-> sub,
                       whisper |-> whisper,
                       enableWhisperHighlight |-> TRUE,
                       highlightedUsers |-> users,
                       highlightedMessages |-> phrases,
                       isAnon |-> FALSE,
                       enableSelfHighlight |-> enableSelf,
                       selfHighlight |-> self,
                       highlightedBadges |-> rules]
    /\ first = NoConfig
    /\ runs = 0
    /\ variants = <<>>
    /\ threads = <<>>
    /\ accessed = {}
    /\ channel = <<>>

\* lines 267-282 for the configuration of the pass
ActiveHighlights ==
    activeHighlights(config.highlightedMessages, config.isAnon,
                     config.enableSelfHighlight, config.selfHighlight,
                     currentUsername)

\* a return statement of parseHighlights, or its end
Finish(b, e) ==
    /\ pc' = "done"
    /\ exit' = e
    /\ runs' = runs + 1
    /\ first' = IF runs = 0 THEN Accumulator(b) ELSE first

\* lines 133-265: subscription, blacklist, whisper, user rules, self check
ParseHighlightsHead ==
    /\ pc = "start"
    /\ LET s == applySubscription(Builder, config.subscription,
                                  enableSubHighlight, Fallback)
           w == applyWhisper(s, config.whisper, isReceivedWhisper,
                             config.enableWhisperHighlight, Fallback)
           u == userLoop(w, config.highlightedUsers, 0, nick,
                         enableSubHighlight, Fallback)
       IN  IF blacklisted
           THEN /\ SetBuilder(s)
                /\ matched' = "none"
                /\ Finish(s, "blacklist")
           ELSE /\ SetBuilder(u.b)
                /\ matched' = IF \E i \in 1..Len(config.highlightedUsers) :
                                    isMatch(config.highlightedUsers[i].pattern,
                                            <<nick>>)
                              THEN "user" ELSE "none"
                /\ IF u.returned
                   THEN Finish(u.b, "user")
                   ELSE IF nick = currentUsername
                        THEN Finish(u.b, "self")
                        ELSE /\ pc' = "phrase"
                             /\ UNCHANGED <<exit, runs, first>>
    /\ UNCHANGED <<msgVars, idx, tags, badges, badgeHighlightSet,
                   triggerVars, config, variants, threads, accessed, channel>>

ParseHighlightsPhrases_Return ==
    /\ pc = "phrase"
    /\ LET r == phraseLoop(Builder, ActiveHighlights, 0, originalMessage_,
                           enableSubHighlight, Fallback)
       IN  /\ SetBuilder(r.b)
           /\ idx' = r.idx
           /\ matched' = IF \E i \in 1..r.idx :
                               isMatch(ActiveHighlights[i].pattern,
                                       originalMessage_)
                         THEN "phrase" ELSE "none"
           /\ IF r.b.highlightAlert_ /\ r.b.highlightSound_
              THEN Finish(r.b, "end")
              ELSE /\ pc' = "badges"
                   /\ UNCHANGED <<exit, runs, first>>
    /\ UNCHANGED <<msgVars, tags, badges, badgeHighlightSet,
                   triggerVars, config, variants, threads, accessed, channel>>

\* lines 267-334: the phrase category
ParseHighlightsPhrases ==
    /\ pc = "phrase"
    /\ LET r == phraseLoop(Builder, ActiveHighlights, 0, originalMessage_,
                           enableSubHighlight, Fallback)
       IN  /\ SetBuilder(r.b)
           /\ idx' = r.idx
           /\ matched' = IF \E i \in 1..r.idx :
                               isMatch(ActiveHighlights[i].pattern,
                                       originalMessage_)
                         THEN "phrase" ELSE "none"
    /\ pc' = "badges"
    /\ UNCHANGED <<exit, msgVars, tags, badges, badgeHighlightSet,
                   triggerVars, scenarioVars>>

\* lines 336-387: the badge category and the end of the function
ParseHighlightsBadges ==
    /\ pc = "badges"
    /\ badges' = parseBadges(tags)
    /\ LET st == badgeRules([b |-> Builder, set |-> FALSE],
                            config.highlightedBadges, 0, parseBadges(tags),
                            enableSubHighlight, Fallback)
       IN  /\ SetBuilder(st.b)
           /\ badgeHighlightSet' = st.set
           /\ matched' = IF st.set THEN "badge" ELSE "none"
           /\ Finish(st.b, "end")
    /\ UNCHANGED <<msgVars, idx, tags, triggerVars, config, variants,
                   threads, accessed, channel>>

\* parseHighlights is called again on the builder the first pass left
ParseHighlightsAgain ==
    /\ pc = "done"
    /\ runs = 1
    /\ pc' = "start"
    /\ exit' = "none"
    /\ matched' = "none"
    /\ idx' = 0
    /\ badges' = <<>>
    /\ badgeHighlightSet' = FALSE
    /\ UNCHANGED <<builderVars, msgVars, tags, triggerVars, scenarioVars>>

NextResolve ==
    \/ ParseHighlightsHead
    \/ ParseHighlightsPhrases
    \/ ParseHighlightsBadges
    \/ ParseHighlightsAgain

SpecResolve == InitResolve /\ [][NextResolve]_vars

\* ------------------------------------- SpecBadgeCategory: the badge loops
\* The badge category entered with any accumulator, one step per badge rule;
\* the loops as coded run alongside the two variants of the inner break.
EntrySounds == {[highlightSound_ |-> FALSE, highlightSoundUrl_ |-> NoUrl],
                [highlightSound_ |-> TRUE, highlightSoundUrl_ |-> "u1"]}

InitBadgeCategory ==
    /\ pc = "badgeRule"
    /\ exit = "none"
    /\ flags \in SUBSET {"Subscription", "Highlighted"}
    /\ highlightColor \in {NoColor, "Whisper"}
    /\ highlightAlert_ \in BOOLEAN
    /\ \E s \in EntrySounds :
          /\ highlightSound_ = s.highlightSound_
          /\ highlightSoundUrl_ = s.highlightSoundUrl_
          /\ soundWriter = IF s.highlightSound_
                           THEN [soundUrl |-> s.highlightSoundUrl_]
                           ELSE NoWriter
    /\ nick = "bob"
    /\ currentUsername = "me"
    /\ originalMessage_ = <<"hi">>
    /\ isReceivedWhisper = FALSE
    /\ blacklisted = FALSE
    /\ enableSubHighlight \in BOOLEAN
    /\ customHighlightSound = FALSE
    /\ pathKind = "missing"
    /\ matched = "none"
    /\ idx = 0
    /\ tags \in MsgTags
    /\ badges = parseBadges(tags)
    /\ badgeHighlightSet = FALSE
    /\ InitTrigger
    /\ config = NoConfig
    /\ first = NoConfig
    /\ runs = 0
    /\ variants = [noBreak |-> [b |-> Builder, set |-> FALSE],
                   stopBoth |-> [b |-> Builder, set |-> FALSE,
                                 stopped |-> FALSE]]
    /\ threads = <<>>
    /\ accessed = {}
    /\ channel = <<>>

\* lines 340-386: one iteration of the loop over highlightedBadges, as coded
\* and in both variants; config keeps the rule that was read
BadgeRuleVariants ==
    /\ pc = "badgeRule"
    /\ idx < MaxRules
    /\ idx' = idx + 1
    /\ \E h \in HighlightBadges(BadgeNames, BadgeVersions) :
          LET st == badgeLoop([b |-> Builder, set |-> badgeHighlightSet],
                              h, badges, 0, enableSubHighlight, Fallback)
          IN  /\ SetBuilder(st.b)
              /\ badgeHighlightSet' = st.set
              /\ matched' = IF \E j \in 1..Len(badges) :
                                  isMatchBadge(h, badges[j])
                            THEN "badge" ELSE "none"
              /\ config' = [kind |-> "badge", highlight |-> h]
              /\ variants' =
                    [noBreak |-> badgeLoopNoBreak(variants.noBreak, h, badges,
                                     0, enableSubHighlight, Fallback),
                     stopBoth |-> badgeLoopStopBoth(variants.stopBoth, h,
                                     badges, 0, enableSubHighlight, Fallback)]
    /\ UNCHANGED <<pc, exit, msgVars, tags, badges, triggerVars, first, runs,
                   threads, accessed, channel>>

\* line 340: no badge rule is left
BadgeCategoryEnd ==
    /\ pc = "badgeRule"
    /\ pc' = "done"
    /\ exit' = "end"
    /\ UNCHANGED <<builderVars, msgVars, loopVars, triggerVars, scenarioVars>>

NextBadgeCategory == BadgeRuleVariants \/ BadgeCategoryEnd

SpecBadgeCategory == InitBadgeCategory /\ [][NextBadgeCategory]_vars

\* ------------------------------------ SpecThreads: concurrent dispatcher
\* triggerHighlights executed statement by statement by the GUI thread and by
\* another thread, in any interleaving. Each thread runs one call at a time;
\* the statics currentPlayerUrl and player are shared.
Threads == {"gui", "worker"}

\* the runtime context of a call made on thread t
ThreadContexts(t) ==
    {c \in Contexts :
        /\ c.isGuiThread = (t = "gui")
        /\ c.isInStreamerMode = c.streamerModeMuteMentions
        /\ ~c.highlightAlwaysPlaySound}

ThreadSounds ==
    {r \in ResolvedSounds : r.highlightSoundUrl_ \in {NoUrl, "u1", "u2"}}

Idle ==
    [pc |-> "idle", highlightSound_ |-> FALSE, highlightSoundUrl_ |-> NoUrl,
     highlightAlert_ |-> FALSE, context |-> NoContext, sink |-> <<>>]

InitThreads ==
    /\ pc = "threads"
    /\ exit = "end"
    /\ flags = {}
    /\ InitBuilder
    /\ nick = "bob"
    /\ currentUsername = "me"
    /\ originalMessage_ = <<"hi">>
    /\ isReceivedWhisper = FALSE
    /\ blacklisted = FALSE
    /\ enableSubHighlight = FALSE
    /\ customHighlightSound = FALSE
    /\ pathKind = "missing"
    /\ InitLoops
    /\ InitTrigger
    /\ config = NoConfig
    /\ first = NoConfig
    /\ runs = 0
    /\ variants = <<>>
    /\ threads = [t \in Threads |-> Idle]
    /\ accessed = {}
    /\ channel = <<>>

\* thread t moves to position p of its call
Goto(t, p) == threads' = [threads EXCEPT ![t].pc = p]

Untouched ==
    UNCHANGED <<pc, exit, builderVars, msgVars, loopVars, context, sink,
                config, first, runs, variants, channel>>

\* line 447: thread t enters triggerHighlights for a resolved builder
Enter(t) ==
    /\ threads[t].pc = "idle"
    /\ calls < MaxCalls
    /\ calls' = calls + 1
    /\ \E r \in ThreadSounds, alert \in BOOLEAN, c \in ThreadContexts(t) :
          threads' = [threads EXCEPT ![t] =
                         [pc |-> "streamer",
                          highlightSound_ |-> r.highlightSound_,
                          highlightSoundUrl_ |-> r.highlightSoundUrl_,
                          highlightAlert_ |-> alert,
                          context |-> c, sink |-> <<>>]]
    /\ UNCHANGED <<currentPlayerUrl, playerMedia, accessed>>
    /\ Untouched

\* lines 451-455
StreamerModeCheck(t) ==
    /\ threads[t].pc = "streamer"
    /\ LET c == threads[t].context
       IN  IF c.isInStreamerMode /\ c.streamerModeMuteMentions
           THEN Goto(t, "idle")
           ELSE Goto(t, "muted")
    /\ UNCHANGED <<currentPlayerUrl, playerMedia, calls, accessed>>
    /\ Untouched

\* lines 457-461
MutedChannelCheck(t) ==
    /\ threads[t].pc = "muted"
    /\ IF threads[t].context.isMutedChannel
       THEN Goto(t, "idle")
       ELSE Goto(t, "focus")
    /\ UNCHANGED <<currentPlayerUrl, playerMedia, calls, accessed>>
    /\ Untouched

\* lines 463-466
ResolveFocus(t) ==
    /\ threads[t].pc = "focus"
    /\ LET c == threads[t].context
       IN  IF threads[t].highlightSound_
              /\ (~c.hasFocus \/ c.highlightAlwaysPlaySound)
           THEN Goto(t, "getPlayer")
           ELSE Goto(t, "alert")
    /\ UNCHANGED <<currentPlayerUrl, playerMedia, calls, accessed>>
    /\ Untouched

\* lines 468 and 434-445: the static player is touched on the GUI branch only
GetPlayer(t) ==
    /\ threads[t].pc = "getPlayer"
    /\ IF getPlayer(threads[t].context) # "nullptr"
       THEN Goto(t, "compare") /\ accessed' = accessed \cup {t}
       ELSE Goto(t, "alert") /\ accessed' = accessed
    /\ UNCHANGED <<currentPlayerUrl, playerMedia, calls>>
    /\ Untouched

\* line 471: reads currentPlayerUrl
CompareUrl(t) ==
    /\ threads[t].pc = "compare"
    /\ IF currentPlayerUrl # threads[t].highlightSoundUrl_
       THEN Goto(t, "setMedia")
       ELSE Goto(t, "play")
    /\ accessed' = accessed \cup {t}
    /\ UNCHANGED <<currentPlayerUrl, playerMedia, calls>>
    /\ Untouched

\* line 473
SetPlayerMedia(t) ==
    /\ threads[t].pc = "setMedia"
    /\ playerMedia' = threads[t].highlightSoundUrl_
    /\ threads' = [threads EXCEPT
                      ![t].pc = "setUrl",
                      ![t].sink = @ \o <<SetMedia(threads[t].highlightSoundUrl_)>>]
    /\ accessed' = accessed \cup {t}
    /\ UNCHANGED <<currentPlayerUrl, calls>>
    /\ Untouched

\* line 475: writes currentPlayerUrl
SetCurrentPlayerUrl(t) ==
    /\ threads[t].pc = "setUrl"
    /\ currentPlayerUrl' = threads[t].highlightSoundUrl_
    /\ Goto(t, "play")
    /\ accessed' = accessed \cup {t}
    /\ UNCHANGED <<playerMedia, calls>>
    /\ Untouched

\* line 478
PlaySound(t) ==
    /\ threads[t].pc = "play"
    /\ threads' = [threads EXCEPT ![t].pc = "alert",
                                  ![t].sink = @ \o <<Play>>]
    /\ accessed' = accessed \cup {t}
    /\ UNCHANGED <<currentPlayerUrl, playerMedia, calls>>
    /\ Untouched

\* lines 482-486
AlertAndReturn(t) ==
    /\ threads[t].pc = "alert"
    /\ threads' = [threads EXCEPT
                      ![t].pc = "idle",
                      ![t].sink = IF threads[t].highlightAlert_
                                  THEN @ \o <<SendAlert>> ELSE @]
    /\ UNCHANGED <<currentPlayerUrl, playerMedia, calls, accessed>>
    /\ Untouched

NextThreads ==
    \E t \in Threads :
        \/ Enter(t)
        \/ StreamerModeCheck(t)
        \/ MutedChannelCheck(t)
        \/ ResolveFocus(t)
        \/ GetPlayer(t)
        \/ CompareUrl(t)
        \/ SetPlayerMedia(t)
        \/ SetCurrentPlayerUrl(t)
        \/ PlaySound(t)
        \/ AlertAndReturn(t)

SpecThreads == InitThreads /\ [][NextThreads]_vars

\* ------------------------------------------ SpecSearch: SearchPopup::filter
\* The search text is held as the matches predicateRegex finds in it: the
\* captured text and the groups name and value, the value as characters.
Match(name, value, captured) ==
    [name |-> name, value |-> value, captured |-> captured]

SearchMatches ==
    {Match("from", <<"a">>, "from:a"),
     Match("from", <<"\"", "b", "\"">>, "from:\"b\""),
     Match("has", <<"l", "i", "n", "k">>, "has:link"),
     Match("", <<>>, "x"),
     Match("in", <<"d">>, "in:d")}

SearchTexts == UNION {[1..n -> SearchMatches] : n \in 0..MaxTokens}

\* the fields of a message the predicates and filters read
SearchMessages ==
    [loginName : {<<"a">>, <<"b">>}, hasLink : BOOLEAN,
     channelName : {<<"c">>}, searchText : {<<"x">>}, flags : {{}}]

Snapshots == UNION {[1..n -> SearchMessages] : n \in 0..MaxSnapshot}

\* a null FilterSetPtr, or a filter set
NoFilterSet == [kind |-> "null"]
FilterSets ==
    {NoFilterSet} \cup [kind : {"filterSet"},
                        loginNames : {{<<"a">>}, {<<"a">>, <<"b">>}}]

\* line 204: value.remove(trimQuotationMarksRegex), the regex ^"|"$
trimQuotationMarks(value) ==
    LET front == IF Len(value) > 0 /\ value[1] = "\""
                 THEN SubSeq(value, 2, Len(value)) ELSE value
    IN  IF Len(front) > 0 /\ front[Len(front)] = "\""
        THEN SubSeq(front, 1, Len(front) - 1) ELSE front

Predicate(kind, values) == [kind |-> kind, values |-> values]

\* lines 197-233: the predicates the loop over the matches pushes
RECURSIVE matchPredicates(_)
matchPredicates(matches) ==
    IF matches = <<>> THEN <<>>
    ELSE LET name == Head(matches).name
             value == trimQuotationMarks(Head(matches).value)
             pushed ==
                 IF name = "from" THEN <<>>
                 ELSE IF name = "has" /\ value = <<"l", "i", "n", "k">>
                 THEN <<Predicate("link", <<>>)>>
                 ELSE IF name = "in" THEN <<>>
                 ELSE IF name = "is" THEN <<Predicate("flags", <<value>>)>>
                 ELSE IF name = "regex"
                 THEN <<Predicate("regex", <<value>>)>>
                 ELSE <<Predicate("substring", <<Head(matches).captured>>)>>
         IN  pushed \o matchPredicates(Tail(matches))

\* lines 207-210 and 215-218: the values appended to authors or to channels
RECURSIVE appended(_, _)
appended(matches, name) ==
    IF matches = <<>> THEN <<>>
    ELSE (IF Head(matches).name = name
          THEN <<trimQuotationMarks(Head(matches).value)>> ELSE <<>>)
         \o appended(Tail(matches), name)

\* lines 179-243
parsePredicates(input) ==
    LET authors == appended(input, "from")
        channels == appended(input, "in")
    IN  matchPredicates(input)
        \o (IF authors # <<>> THEN <<Predicate("author", authors)>>
            ELSE <<>>)
        \o (IF channels # <<>> THEN <<Predicate("channel", channels)>>
            ELSE <<>>)

\* MessagePredicate::appliesTo of the predicate classes
appliesTo(pred, message) ==
    CASE pred.kind = "link" -> message.hasLink
      [] pred.kind = "author" -> message.loginName \in Range(pred.values)
      [] pred.kind = "channel" -> message.channelName \in Range(pred.values)
      [] pred.kind = "flags" -> pred.values[1] \in message.flags
      [] pred.kind = "regex" -> pred.values[1] \in Range(message.searchText)
      [] pred.kind = "substring" ->
            pred.values[1] \in Range(message.searchText)

\* FilterSet::filter
filterSetFilter(filterSet, message) ==
    message.loginName \in filterSet.loginNames

\* Channel::addMessage
addMessage(messages, message) == Append(messages, message)

acceptLoop_Any(predicates, i, message) ==
    \E j \in (i + 1)..Len(predicates) : appliesTo(predicates[j], message)

\* lines 35-45: accept after the loop over the predicates from position i
RECURSIVE acceptLoop(_, _, _)
acceptLoop(predicates, i, message) ==
    IF i >= Len(predicates) THEN TRUE
    ELSE IF ~appliesTo(predicates[i + 1], message) THEN FALSE
    ELSE acceptLoop(predicates, i + 1, message)

InitSearch ==
    /\ pc = "search"
    /\ exit = "none"
    /\ flags = {}
    /\ InitBuilder
    /\ nick = "bob"
    /\ currentUsername = "me"
    /\ originalMessage_ = <<"hi">>
    /\ isReceivedWhisper = FALSE
    /\ blacklisted = FALSE
    /\ enableSubHighlight = FALSE
    /\ customHighlightSound = FALSE
    /\ pathKind = "missing"
    /\ InitLoops
    /\ InitTrigger
    /\ \E text \in SearchTexts, snapshot \in Snapshots,
          filterSet \in FilterSets :
          config = [kind |-> "search", text |-> text, snapshot |-> snapshot,
                    filterSet |-> filterSet, predicates |-> <<>>]
    /\ first = NoConfig
    /\ runs = 0
    /\ variants = <<>>
    /\ threads = <<>>
    /\ accessed = {}
    /\ channel = <<>>

\* lines 25-28: the new channel is empty, the predicates are parsed
ParsePredicates ==
    /\ pc = "search"
    /\ config' = [config EXCEPT !.predicates = parsePredicates(config.text)]
    /\ channel' = <<>>
    /\ idx' = 0
    /\ pc' = "filter"
    /\ UNCHANGED <<exit, builderVars, msgVars, matched, tags, badges,
                   badgeHighlightSet, triggerVars, first, runs, variants,
                   threads, accessed>>

\* lines 32-53: one iteration of the loop over the snapshot
FilterMessage ==
    /\ pc = "filter"
    /\ idx < Len(config.snapshot)
    /\ LET message == config.snapshot[idx + 1]
           applies == acceptLoop(config.predicates, 0, message)
           accept == IF applies /\ config.filterSet # NoFilterSet
                     THEN filterSetFilter(config.filterSet, message)
                     ELSE applies
       IN  channel' = IF accept THEN addMessage(channel, message)
                      ELSE channel
    /\ idx' = idx + 1
    /\ UNCHANGED <<pc, exit, builderVars, msgVars, matched, tags, badges,
                   badgeHighlightSet, triggerVars, config, first, runs,
                   variants, threads, accessed>>

\* lines 32 and 55: the snapshot is read, the channel is returned
FilterReturn ==
    /\ pc = "filter"
    /\ idx >= Len(config.snapshot)
    /\ pc' = "returned"
    /\ UNCHANGED <<exit, builderVars, msgVars, loopVars, triggerVars,
                   scenarioVars>>

NextSearch == ParsePredicates \/ FilterMessage \/ FilterReturn

SpecSearch == InitSearch /\ [][NextSearch]_vars

\* ================================================================== claims
Protected == subProtected(Builder, enableSubHighlight)

C3_SubscriptionColorFinal ==
    (pc = "done" /\ Protected) => highlightColor = "Subscription"

\* C4: for a blacklisted sender every step after the subscription category
\* leaves the builder fields alone and ends the pass, and when the
\* subscription category did not apply the fields keep their initial values.
C4_BlacklistReturn ==
    /\ [][(blacklisted /\ pc # "subscription")
            => (pc' = "done" /\ UNCHANGED builderVars)]_vars
    /\ []((blacklisted /\ pc = "done" /\ ~Protected)
            => (/\ flags \subseteq {"Subscription"}
                /\ highlightColor = NoColor
                /\ ~highlightAlert_
                /\ ~highlightSound_
                /\ highlightSoundUrl_ = NoUrl))

\* a blacklisted sender of a whisper whose subscription sound was chosen
C4_Witness ==
    /\ blacklisted
    /\ pc = "done"
    /\ exit = "blacklist"
    /\ isReceivedWhisper
    /\ highlightSound_
    /\ highlightColor = "Subscription"

\* C5: when the sender is the current user and the per-user loop did not
\* return, the self check ends the pass with the builder fields unchanged;
\* the phrase and badge categories are never entered.
C5_SelfExclusion ==
    /\ [][(nick = currentUsername /\ pc = "self")
            => (pc' = "done" /\ UNCHANGED builderVars)]_vars
    /\ [](nick = currentUsername
            => (/\ pc \notin {"phrase", "badges", "badgeRule"}
                /\ matched \notin {"phrase", "self", "badge"}))

\* the current user sent a text that holds their own name
C5_Witness ==
    /\ nick = currentUsername
    /\ pc = "done"
    /\ exit = "self"
    /\ isMatch(currentUsername, originalMessage_)

\* C6: for a message of the current user no step after the whisper category
\* (per-user, phrase, badge) changes Highlighted, highlightColor,
\* highlightAlert_ or highlightSound_.
C6_NoHighlightBySelf ==
    [][(nick = currentUsername /\ pc \notin {"subscription", "blacklist",
                                             "whisper"})
         => UNCHANGED <<flags, highlightColor, highlightAlert_,
                        highlightSound_>>]_vars

\* the last triggerHighlights call was suppressed by streamer mode or mute
Suppressed(c) ==
    (c.isInStreamerMode /\ c.streamerModeMuteMentions) \/ c.isMutedChannel

CountOp(log, op) == Cardinality({i \in 1..Len(log) : log[i].op = op})

\* C7: a triggerHighlights call made in streamer mode with
\* streamerModeMuteMentions, or for a muted channel, calls no sink and leaves
\* the cached URL and the loaded media unchanged.
C7_SuppressedCallDoesNothing ==
    [][(calls' = calls + 1 /\ Suppressed(context'))
         => (/\ sink' = <<>>
             /\ currentPlayerUrl' = currentPlayerUrl
             /\ playerMedia' = playerMedia)]_vars

\* a muted channel, with a sound that would otherwise be loaded and played
C7_Witness ==
    /\ context # NoContext
    /\ context.isMutedChannel
    /\ ~context.isInStreamerMode
    /\ context.isGuiThread
    /\ ~context.hasFocus
    /\ highlightSound_
    /\ highlightAlert_
    /\ highlightSoundUrl_ # currentPlayerUrl
    /\ sink = <<>>

\* C8: after a call that is not suppressed, play() was called only if
\* highlightSound_ and (no focus or highlightAlwaysPlaySound), sendAlert()
\* was called iff highlightAlert_, and each was called at most once.
C8_FiringConditions ==
    (context # NoContext /\ ~Suppressed(context))
      => /\ (CountOp(sink, "play") > 0
               => (highlightSound_
                   /\ (~context.hasFocus \/ context.highlightAlwaysPlaySound)))
         /\ (CountOp(sink, "sendAlert") > 0 <=> highlightAlert_)
         /\ CountOp(sink, "play") <= 1
         /\ CountOp(sink, "sendAlert") <= 1

\* focused application without highlightAlwaysPlaySound: alert but no sound
C8_Witness ==
    /\ context # NoContext
    /\ ~Suppressed(context)
    /\ context.hasFocus
    /\ ~context.highlightAlwaysPlaySound
    /\ context.isGuiThread
    /\ highlightSound_
    /\ highlightAlert_
    /\ sink = <<SendAlert>>

\* the tokens of a tag value: maximal comma-free runs, given by their bounds
IsToken(v, i, j) ==
    /\ i <= j
    /\ \A k \in i..j : v[k] # ","
    /\ (i = 1 \/ v[i - 1] = ",")
    /\ (j = Len(v) \/ v[j + 1] = ",")

Slashes(v, i, j) == {k \in i..j : v[k] = "/"}

\* start positions of the tokens that hold exactly one '/'
BadgeStarts(v) ==
    {i \in 1..Len(v) :
        \E j \in i..Len(v) :
            IsToken(v, i, j) /\ Cardinality(Slashes(v, i, j)) = 1}

BadgeAt(v, i) ==
    LET j == CHOOSE j \in i..Len(v) : IsToken(v, i, j)
        k == CHOOSE k \in Slashes(v, i, j) : TRUE
    IN  [name |-> SubSeq(v, i, k - 1), version |-> SubSeq(v, k + 1, j)]

\* C9: parseBadges returns, in order of appearance, the (name, version) pair
\* of every non-empty comma-separated token of the `badges` tag that holds
\* exactly one '/', and nothing else; no `badges` tag gives the empty list.
C9_ParseBadges ==
    pc = "parsed"
      => IF "badges" \notin DOMAIN tags
         THEN badges = <<>>
         ELSE LET v == tags["badges"]
                  starts == BadgeStarts(v)
              IN  /\ Len(badges) = Cardinality(starts)
                  /\ \A i \in starts :
                        badges[Cardinality({k \in starts : k <= i})]
                          = BadgeAt(v, i)

\* a one-part token, then a name/version token
C9_Witness ==
    /\ pc = "parsed"
    /\ tags = Tags(<<"s", ",", "s", "/", "1">>)
    /\ badges = <<[name |-> <<"s">>, version |-> <<"1">>]>>

\* C10: at the end of the pass a requested sound has a URL: the custom URL
\* of the settings that wrote it, else the local file of pathHighlightSound
\* if customHighlightSound is set and the path is a regular file, else the
\* built-in default.
C10_SoundUrlSelection ==
    (pc = "done" /\ highlightSound_)
      => /\ highlightSoundUrl_ # NoUrl
         /\ highlightSoundUrl_ =
               IF soundWriter.soundUrl \in {"u1", "u2"}
               THEN soundWriter.soundUrl
               ELSE IF customHighlightSound /\ pathKind = "file"
                    THEN "file:///snd/custom.wav"
                    ELSE "qrc:/sounds/ping2.wav"

\* custom sound enabled but the path is a directory, writer without custom URL
C10_Witness ==
    /\ pc = "done"
    /\ highlightSound_
    /\ soundWriter.soundUrl = ""
    /\ customHighlightSound
    /\ pathKind = "dir"
    /\ highlightSoundUrl_ = DefaultSound

\* C11: during a pass the Highlighted and ShowInMentions flags,
\* highlightAlert_ and highlightSound_ only ever go from false to true: no
\* step of parseHighlights clears one of them.
C11_MonotonicAccumulation ==
    [][/\ "Highlighted" \in flags => "Highlighted" \in flags'
       /\ "ShowInMentions" \in flags => "ShowInMentions" \in flags'
       /\ highlightAlert_ => highlightAlert_'
       /\ highlightSound_ => highlightSound_']_vars

\* a badge rule was applied to a builder that holds all four
C11_Witness ==
    /\ pc = "badgeRule"
    /\ matched = "badge"
    /\ {"Highlighted", "ShowInMentions"} \subseteq flags
    /\ highlightAlert_
    /\ highlightSound_

\* C14: a matching per-user rule that leaves highlightAlert_ and
\* highlightSound_ both true ends the pass at once, whichever category set
\* them: the loop over the user rules never goes on from such a state, and
\* the pass that returned there rests with what that rule left.
C14_UserShortCircuit ==
    /\ pc = "user" /\ matched = "user"
          => ~(highlightAlert_ /\ highlightSound_)
    /\ exit = "user"
          => /\ pc = "done"
             /\ matched = "user"
             /\ highlightAlert_ /\ highlightSound_
             /\ "Highlighted" \in flags

\* the first user rule returned although the rule list had more to read and
\* the sound came from an earlier category
C14_Witness ==
    /\ exit = "user"
    /\ idx = 1
    /\ soundWriter.soundUrl = "u1"
    /\ highlightSoundUrl_ = "u1"

\* C13 as stated: a second pass of parseHighlights over the same message and
\* configuration, started from the accumulator the first pass left, ends in
\* exactly that accumulator.
C13_Idempotence ==
    pc = "done" /\ runs = 2 => Accumulator(Builder) = first

\* C13 amended: the second pass ends with the same flags, highlightAlert_ and
\* highlightSound_ as the first, and with exactly the same accumulator when
\* the first pass did not leave alert and sound both set; when it did, the
\* loops of the second pass stop earlier and the color or the sound URL may
\* differ.
C13_SecondPassKeepsFlags ==
    pc = "done" /\ runs = 2 =>
        /\ flags = first.flags
        /\ highlightAlert_ = first.highlightAlert_
        /\ highlightSound_ = first.highlightSound_
        /\ ~(first.highlightAlert_ /\ first.highlightSound_)
              => Accumulator(Builder) = first

\* a second pass that ran to the end and kept an accumulator in which rules
\* had set the color, the flags and the sound
C13_Witness ==
    /\ pc = "done"
    /\ runs = 2
    /\ exit = "end"
    /\ ~(first.highlightAlert_ /\ first.highlightSound_)
    /\ first.highlightSound_
    /\ first.highlightColor \notin {NoColor, "Whisper", "Subscription"}
    /\ Accumulator(Builder) = first

\* positions of the phrases of the active list that match the message text
MatchingPhrases ==
    {i \in 1..Len(ActiveHighlights) :
        isMatch(ActiveHighlights[i].pattern, originalMessage_)}

NoUserMatch ==
    \A i \in 1..Len(config.highlightedUsers) :
        ~isMatch(config.highlightedUsers[i].pattern, <<nick>>)

NoBadgeMatch ==
    \A i \in 1..Len(config.highlightedBadges), j \in 1..Len(badges) :
        ~isMatchBadge(config.highlightedBadges[i], badges[j])

\* the case of C12: a received whisper that is no subscription, whisper
\* highlight and sound enabled with a custom URL, a sender that is neither
\* blacklisted nor the current user, no matching user or badge rule, and a
\* matching phrase
WhisperWithPhrase ==
    /\ pc = "done" /\ runs = 1
    /\ isReceivedWhisper /\ "Subscription" \notin flags
    /\ config.enableWhisperHighlight
    /\ config.whisper.hasSound /\ hasCustomSound(config.whisper)
    /\ ~blacklisted /\ nick # currentUsername
    /\ NoUserMatch /\ NoBadgeMatch
    /\ MatchingPhrases # {}

MatchingBadgeRules ==
    {i \in 1..Len(config.highlightedBadges) :
        \E j \in 1..Len(parseBadges(tags)) :
            isMatchBadge(config.highlightedBadges[i], parseBadges(tags)[j])}

Min(S) == CHOOSE x \in S : \A y \in S : x <= y
Max(S) == CHOOSE x \in S : \A y \in S : x >= y

\* the phrase category is over and its loop ended by the break at 326-333
PhraseLoopBroke ==
    /\ pc = "badges"
    /\ matched = "phrase"
    /\ highlightAlert_ /\ highlightSound_

\* C15: the phrase category always hands over to the badge category, also
\* when its loop ended by the break; the badge category then runs to the end
\* of the function, and if a badge rule matches, the message is Highlighted
\* and, unless the subscription color is protected, has the color of the
\* first matching badge rule.
C15_PhraseBreakIsNoReturn ==
    [][/\ pc = "phrase" => pc' = "badges"
       /\ PhraseLoopBroke =>
             /\ pc' = "done" /\ exit' = "end"
             /\ MatchingBadgeRules # {} =>
                   /\ "Highlighted" \in flags'
                   /\ ~Protected =>
                         highlightColor' =
                             config.highlightedBadges[
                                 Min(MatchingBadgeRules)].color]_vars

\* the break skipped a matching phrase, and the badge rule gave the color
C15_Witness ==
    /\ pc = "done" /\ runs = 1 /\ exit = "end"
    /\ highlightAlert_ /\ highlightSound_
    /\ \E i \in MatchingPhrases : i > idx
    /\ MatchingBadgeRules # {}
    /\ highlightColor = "c2"
    /\ highlightSoundUrl_ = "q1"

\* C19: when the phrase category runs on a message whose color is not
\* protected and its loop reads every matching phrase, the color it leaves is
\* that of the last matching phrase of the active list, whose last element is
\* the self-mention phrase; when no sound was set before the category, the
\* sound URL it leaves is that of the first matching phrase that has sound.
C19_PhraseColorLastSoundFirst ==
    [][pc = "phrase" =>
          LET sounding == {i \in MatchingPhrases :
                              ActiveHighlights[i].hasSound}
          IN  /\ (/\ MatchingPhrases # {}
                  /\ ~Protected
                  /\ idx' >= Max(MatchingPhrases))
                    => highlightColor' =
                           ActiveHighlights[Max(MatchingPhrases)].color
              /\ (sounding # {} /\ ~highlightSound_)
                    => /\ highlightSound_'
                       /\ highlightSoundUrl_' =
                              soundUrlOf(ActiveHighlights[Min(sounding)],
                                         Fallback)]_vars

\* two phrases and the self-mention matched: the color is the self-mention
\* color, the sound URL that of the first phrase although the self-mention
\* has sound as well
C19_Witness ==
    /\ pc = "badges" /\ runs = 0
    /\ MatchingPhrases = {1, 2, 3}
    /\ ActiveHighlights[3].kind = "self"
    /\ ActiveHighlights[3].hasSound
    /\ ActiveHighlights[2].color = "p2"
    /\ highlightColor = "SelfHighlight"
    /\ highlightSoundUrl_ = "q1"

\* positions in a sink log of the calls of one operation
Positions(log, op) == {i \in 1..Len(log) : log[i].op = op}

\* C16: in every triggerHighlights call that plays, setMedia is called
\* exactly when the message's sound URL differs from the cached URL, with
\* that URL and before play(); afterwards the cached URL and the media loaded
\* in the player are the message's highlightSoundUrl_. A call that does not
\* play calls no setMedia and leaves the cached URL and the media unchanged.
C16_SoundCacheCoherence ==
    [][calls' = calls + 1 =>
          IF Positions(sink', "play") # {}
          THEN /\ Positions(sink', "setMedia") # {}
                     <=> highlightSoundUrl_' # currentPlayerUrl
               /\ \A i \in Positions(sink', "setMedia") :
                     /\ sink'[i] = SetMedia(highlightSoundUrl_')
                     /\ \A j \in Positions(sink', "play") : i < j
               /\ currentPlayerUrl' = highlightSoundUrl_'
               /\ playerMedia' = highlightSoundUrl_'
          ELSE /\ Positions(sink', "setMedia") = {}
               /\ currentPlayerUrl' = currentPlayerUrl
               /\ playerMedia' = playerMedia]_vars

\* a later call played the URL that was cached, without loading it again
C16_Witness ==
    /\ calls >= 2
    /\ context.isGuiThread
    /\ sink = <<Play>>
    /\ highlightSoundUrl_ = "u1"
    /\ currentPlayerUrl = "u1"
    /\ playerMedia = "u1"

\* the badges of the message a badge rule matches
MatchingBadges(h) == {j \in 1..Len(badges) : isMatchBadge(h, badges[j])}

\* C17: a badge rule matches a badge of the same name when it has no version
\* or the same version. The first matching rule sets Highlighted and, unless
\* the subscription color is protected, assigns its color; a rule that
\* matches after that leaves the flags and the color alone. Every matching
\* rule sets the alert it has and, while no sound is set, its sound and URL.
C17_BadgeColorLatch ==
    [][idx' = idx + 1 =>
          LET h == config'.highlight
              m == \E j \in 1..Len(badges) :
                      /\ badges[j].name = h.badgeName
                      /\ h.badgeVersion # <<>>
                            => badges[j].version = h.badgeVersion
          IN  /\ (matched' = "badge") <=> m
              /\ ~m => /\ UNCHANGED builderVars
                       /\ UNCHANGED badgeHighlightSet
              /\ (m /\ ~badgeHighlightSet) =>
                    /\ badgeHighlightSet'
                    /\ flags' = flags \cup {"Highlighted"}
                    /\ highlightColor' =
                          IF Protected THEN highlightColor ELSE h.color
              /\ (m /\ badgeHighlightSet) =>
                    /\ badgeHighlightSet'
                    /\ flags' = flags
                    /\ highlightColor' = highlightColor
              /\ m => /\ highlightAlert_' = (highlightAlert_ \/ h.hasAlert)
                      /\ highlightSound_' = (highlightSound_ \/ h.hasSound)
                      /\ highlightSoundUrl_' =
                            IF h.hasSound /\ ~highlightSound_
                            THEN soundUrlOf(h, Fallback)
                            ELSE highlightSoundUrl_]_vars

\* a second matching rule, with a version, gave the alert and the sound but
\* not its color
C17_Witness ==
    /\ pc = "badgeRule"
    /\ idx = 2
    /\ matched = "badge"
    /\ config.highlight.badgeVersion = <<"1">>
    /\ config.highlight.color = "c2"
    /\ highlightColor = "c1"
    /\ highlightAlert_
    /\ highlightSoundUrl_ = "u2"

\* C18: after any number of badge rules, from any accumulator at entry, the
\* loops as coded hold the same flags, color, alert, sound and sound URL as
\* the loops without the break and as the loops that the break ends both.
C18_InnerBreakUnobservable ==
    /\ variants.noBreak.b = Builder
    /\ variants.noBreak.set = badgeHighlightSet
    /\ variants.stopBoth.b = Builder
    /\ variants.stopBoth.set = badgeHighlightSet

\* the second rule matched two badges: the break skipped its second badge,
\* and the variant that ends both loops had skipped the whole rule
C18_Witness ==
    /\ pc = "done"
    /\ idx = 2
    /\ matched = "badge"
    /\ variants.stopBoth.stopped
    /\ Cardinality(MatchingBadges(config.highlight)) = 2
    /\ ~Protected
    /\ highlightColor \in RuleColors
    /\ highlightColor # config.highlight.color

Workers == Threads \ {"gui"}

\* the operations a sink log holds
Ops(log) == {log[i].op : i \in 1..Len(log)}

\* C20: in every interleaving of calls on the GUI thread and on another
\* thread, only the GUI thread touches the cached URL and the player. A step
\* of the other thread never changes the cached URL or the loaded media; its
\* call never gets past getPlayer() to the player, makes no setMedia or play
\* call, and when it has ended it has called sendAlert() exactly if
\* highlightAlert_ was true and the call was not suppressed.
C20_ThreadConfinement ==
    /\ [][\A t \in Workers :
             threads'[t] # threads[t] =>
                 /\ currentPlayerUrl' = currentPlayerUrl
                 /\ playerMedia' = playerMedia]_vars
    /\ [](/\ accessed \subseteq {"gui"}
          /\ \A t \in Workers :
                /\ threads[t].pc \notin {"compare", "setMedia", "setUrl",
                                         "play"}
                /\ Ops(threads[t].sink) \subseteq {"sendAlert"}
                /\ (threads[t].pc = "idle" /\ threads[t].context # NoContext)
                      => (threads[t].sink = <<SendAlert>>
                            <=> /\ threads[t].highlightAlert_
                                /\ ~Suppressed(threads[t].context)))

\* the other thread ended a call that wanted sound with only sendAlert(),
\* while the GUI thread was between setMedia and the update of the cached URL
C20_Witness ==
    /\ threads["worker"].pc = "idle"
    /\ threads["worker"].highlightSound_
    /\ ~threads["worker"].context.hasFocus
    /\ threads["worker"].sink = <<SendAlert>>
    /\ threads["gui"].pc = "setUrl"
    /\ playerMedia # currentPlayerUrl
    /\ accessed = {"gui"}

\* a snapshot message that every parsed predicate applies to and that the
\* filter set, when one is given, accepts
Accepted(message) ==
    /\ \A p \in Range(parsePredicates(config.text)) : appliesTo(p, message)
    /\ config.filterSet # NoFilterSet
          => filterSetFilter(config.filterSet, message)

\* the accepted positions among the first n of the snapshot, and the k-th
AcceptedPositions(n) == {i \in 1..n : Accepted(config.snapshot[i])}

Kth(S, k) == CHOOSE i \in S : Cardinality({j \in S : j <= i}) = k

\* C21: after each message of the snapshot, and when filter returns, the
\* channel holds exactly the accepted messages read so far, one per accepted
\* position and in the order of the snapshot; filter returns when the whole
\* snapshot is read, and with no predicate and no filter set the channel
\* then holds the whole snapshot.
C21_FilterIsOrderedConjunction ==
    pc \in {"filter", "returned"} =>
        /\ Len(channel) = Cardinality(AcceptedPositions(idx))
        /\ \A k \in 1..Len(channel) :
              channel[k] = config.snapshot[Kth(AcceptedPositions(idx), k)]
        /\ pc = "returned" =>
              /\ idx = Len(config.snapshot)
              /\ (config.text = <<>> /\ config.filterSet = NoFilterSet)
                    => channel = config.snapshot

\* two predicates and a filter set: the first message failed a predicate,
\* the second one was added
C21_Witness ==
    /\ pc = "returned"
    /\ Len(config.predicates) = 2
    /\ config.predicates[2].kind = "author"
    /\ config.filterSet # NoFilterSet
    /\ Len(config.snapshot) = 2
    /\ ~config.snapshot[1].hasLink
    /\ filterSetFilter(config.filterSet, config.snapshot[1])
    /\ channel = <<config.snapshot[2]>>

\* the accumulator and the way the pass ended agree with one another
Consistent ==
    /\ highlightSound_ <=> highlightSoundUrl_ # NoUrl
    /\ "ShowInMentions" \in flags => "Highlighted" \in flags
    /\ "Highlighted" \in flags => highlightColor # NoColor
    /\ pc # "done" => exit = "none"
    /\ pc = "done" =>
          /\ exit \in {"blacklist", "user", "self", "end"}
          /\ exit = "blacklist" => blacklisted
          /\ exit = "user" => highlightAlert_ /\ highlightSound_
          /\ exit = "self" => nick = currentUsername

\* the categories of parseHighlights still ahead of a position in it
Ahead(p) ==
    CASE p = "subscription" -> 8
      [] p = "blacklist" -> 7
      [] p = "whisper" -> 6
      [] p = "user" -> 5
      [] p = "self" -> 4
      [] p = "phrase" -> 3
      [] p = "badges" -> 2
      [] p = "badgeRule" -> 1
      [] OTHER -> 0

\* the steps a pass can still take: the categories ahead, and the rules of
\* the list being read that were not read yet
Remaining == Ahead(pc) * (MaxRules + 1) + (MaxRules - idx)

\* C22: every pass of parseHighlights ends, by one of the three returns or at
\* the end of the badge category: the count of what remains is a natural
\* number that every step lowers, and a pass that has not ended can always
\* take a step. At every step of it, so at every break and return, the
\* sound flag and the sound URL, the two flags and the color agree.
C22_ResolutionCompletes ==
    /\ [][Remaining' < Remaining]_vars
    /\ [](Remaining \in Nat)
    /\ [](pc # "done" => ENABLED Next)
    /\ []Consistent

\* a pass that read every rule list to its end and highlighted by a badge
C22_Witness ==
    /\ pc = "done"
    /\ exit = "end"
    /\ idx = MaxRules
    /\ badgeHighlightSet
    /\ highlightSound_
    /\ Len(badges) = 2
====
